---- MODULE Spec2Model ----
(***************************************************************************)
(* Rendering gateway (src/index.js, second program text, lines 177-630):   *)
(* the /fetch handler, its two upstream clients, the stylesheet inliner    *)
(* and the in-memory fetch cache.                                          *)
(*                                                                         *)
(* Node runs the handler of each request on one thread; a handler runs     *)
(* without interruption from one `await` to the next.  Every action below  *)
(* is one such uninterrupted stretch of one request's handler.             *)
(*                                                                         *)
(* Text is modelled as a sequence: an address is a sequence of one-char    *)
(* strings, a markup body is a sequence of tokens (Tok records).           *)
(***************************************************************************)
EXTENDS Integers, Sequences, FiniteSets, TLC

VARIABLES
    clock,              \* Date.now(), in model time units
    fetchCache,         \* the Map of line 197, as its entries in Map order
    CACHE_TTL_MS,       \* line 190 (environment)
    CACHE_MAX_ENTRIES,  \* line 191 (environment)
    BROWSERLESS_TOKEN,  \* line 185 (environment): TRUE iff set
    world,              \* what callers send and upstreams answer in this run
    cacheOp,            \* what the latest step did to the cache
    req                 \* per request slot: the handler's locals and position

vars ==
    <<clock, fetchCache, CACHE_TTL_MS, CACHE_MAX_ENTRIES, BROWSERLESS_TOKEN, world, cacheOp, req>>

----------------------------------------------------------------------------
(* Bounds of the model *)

\* request slots: at most this many requests are in flight at once
NumReq == 2
\* the clock stops advancing here
MaxClock == 2

(* Program constants.  The cache's two are set by the environment (lines   *)
(* 190-191); the runs take a TTL of two time units, and each workload below *)
(* names the capacities it runs with.                                       *)
EnvCacheTtlMs == 2
SCREENSHOT_RETRIES == 2
SCREENSHOT_BACKOFF_MS == 1500
CAPTURE_DELAY_MS == 5000

Reqs == 1..NumReq

Null == "null"

----------------------------------------------------------------------------
(* Text *)

Tok(k, a, b, base) == [k |-> k, a |-> a, b |-> b, base |-> base]
WS == Tok("ws", "", "", <<>>)
HTML == Tok("html", "", "", <<>>)
TXT == Tok("text", "hi", "", <<>>)
\* <link rel="stylesheet" href=h>
LinkTag(h) == Tok("link", h, "", <<>>)
\* <style data-inlined-from=cssUrl>cssText</style>, cssUrl = href resolved on base
StyleTag(base, h, css) == Tok("style", h, css, base)

\* the white space of an address (characters) and of a body (tokens)
SpaceChars == {" "}
SpaceToks == {WS}

\* String.prototype.trimStart
TrimStart(s, spaces) ==
    LET keep == {i \in 1..Len(s) : s[i] \notin spaces}
    IN  IF keep = {} THEN <<>>
        ELSE SubSeq(s, CHOOSE i \in keep : \A j \in keep : i <= j, Len(s))

TrimEnd(s, spaces) ==
    LET keep == {i \in 1..Len(s) : s[i] \notin spaces}
    IN  IF keep = {} THEN <<>>
        ELSE SubSeq(s, 1, CHOOSE i \in keep : \A j \in keep : j <= i)

\* String.prototype.trim
Trim(s, spaces) == TrimEnd(TrimStart(s, spaces), spaces)

----------------------------------------------------------------------------
(* The cache store, lines 197-243 *)

MapHas(m, k) == \E i \in 1..Len(m) : m[i].key = k

MapGet(m, k) == m[CHOOSE i \in 1..Len(m) : m[i].key = k]

MapDelete(m, k) == SelectSeq(m, LAMBDA e : e.key # k)

\* a set that leaves an existing key's entry as it is (the first writer wins)
MapSetKeepsFirst(m, k, entry) ==
    IF MapHas(m, k) THEN m
    ELSE Append(m, [key |-> k, value |-> entry.value, expiresAt |-> entry.expiresAt])

\* Map.prototype.set: an existing key keeps its place in the iteration order
MapSet(m, k, entry) ==
    LET e == [key |-> k, value |-> entry.value, expiresAt |-> entry.expiresAt]
    IN  IF MapHas(m, k)
        THEN [i \in 1..Len(m) |-> IF m[i].key = k THEN e ELSE m[i]]
        ELSE Append(m, e)

\* a purge that deletes nothing
purgeNothing(m, now) == m

\* a purge that also deletes the entries about to expire
purgeEarly(m, now) == SelectSeq(m, LAMBDA e : ~(e.expiresAt <= now + 1))

purgeExpiredCacheEntries(m, now) == SelectSeq(m, LAMBDA e : ~(e.expiresAt <= now))

getCacheKey(targetUrl) == Trim(targetUrl, SpaceChars)

\* the messages of lines 515 and 548
InvalidBodyMessage ==
    "Invalid body. Send JSON like {\"url\":\"https://example.com\"} or a JSON string containing that object."
EmptyBodyMessage ==
    "Browserless returned an empty response body. Target site may block automation or require different wait settings."

\* an Error: its message, and the upstream status and body text the message carries
Err(msg, status) == [msg |-> msg, status |-> status, details |-> <<>>]
\* `${msg} (${status} ${statusText}): ${details}`, lines 343-345 and 417-419
UpstreamError(msg, status, details) == [msg |-> msg, status |-> status, details |-> details]
\* null, where an Error, a screenshot result or a markup result may stand
NoErr == Err(Null, 0)
NullShot == [isNull |-> TRUE, image |-> <<>>, contentType |-> Null]
NullHtml == [body |-> <<>>, contentType |-> Null]

NullValue ==
    [html |-> <<>>, htmlContentType |-> Null,
     screenshotResult |-> NullShot, screenshotWarning |-> NoErr]

\* a lookup with a sliding expiry: a hit pushes the entry's expiresAt back
getCachedFetchResultRefreshes(m, targetUrl, now1, now2) ==
    LET purged == purgeExpiredCacheEntries(m, now1)
        cacheKey == getCacheKey(targetUrl)
    IN  IF ~MapHas(purged, cacheKey)
        THEN [cache |-> purged, found |-> FALSE, value |-> NullValue, ttlRemainingMs |-> 0]
        ELSE LET entry == MapGet(purged, cacheKey)
                 msLeft == entry.expiresAt - now2
             IN  IF msLeft <= 0
                 THEN [cache |-> MapDelete(purged, cacheKey), found |-> FALSE,
                       value |-> NullValue, ttlRemainingMs |-> 0]
                 ELSE [cache |-> MapSet(purged, cacheKey,
                                        [entry EXCEPT !.expiresAt = @ + 1]),
                       found |-> TRUE,
                       value |-> entry.value, ttlRemainingMs |-> msLeft]

\* now1 is the Date.now() of the purge (line 200), now2 that of line 218
getCachedFetchResult(m, targetUrl, now1, now2) ==
    LET purged == purgeExpiredCacheEntries(m, now1)
        cacheKey == getCacheKey(targetUrl)
    IN  IF ~MapHas(purged, cacheKey)
        THEN [cache |-> purged, found |-> FALSE, value |-> NullValue, ttlRemainingMs |-> 0]
        ELSE LET entry == MapGet(purged, cacheKey)
                 msLeft == entry.expiresAt - now2
             IN  IF msLeft <= 0
                 THEN [cache |-> MapDelete(purged, cacheKey), found |-> FALSE,
                       value |-> NullValue, ttlRemainingMs |-> 0]
                 ELSE [cache |-> purged, found |-> TRUE,
                       value |-> entry.value, ttlRemainingMs |-> msLeft]

\* an eviction that never evicts
EvictNothing(m, max) == m

\* an eviction of the entry inserted last
EvictNewest(m, max) ==
    IF Len(m) >= max /\ m # <<>> THEN MapDelete(m, m[Len(m)].key) ELSE m

\* the eviction of lines 234-237
EvictOldest(m, max) ==
    IF Len(m) >= max /\ m # <<>> THEN MapDelete(m, Head(m).key) ELSE m

\* a put that makes room after it has inserted
setCachedFetchResultEvictsAfter(m, targetUrl, value, now1, now2, ttl, max) ==
    IF ttl <= 0 \/ max <= 0
    THEN m
    ELSE LET purged == purgeExpiredCacheEntries(m, now1)
             stored == MapSet(purged, getCacheKey(targetUrl),
                              [value |-> value, expiresAt |-> now2 + ttl])
         IN  IF Len(purged) >= max THEN Tail(stored) ELSE stored

\* a put without the test of the configuration
setCachedFetchResultAlways(m, targetUrl, value, now1, now2, ttl, max) ==
    MapSet(EvictOldest(purgeExpiredCacheEntries(m, now1), max),
           getCacheKey(targetUrl),
           [value |-> value, expiresAt |-> now2 + ttl])

\* now1 is the Date.now() of the purge (line 200), now2 that of line 241
setCachedFetchResult(m, targetUrl, value, now1, now2, ttl, max) ==
    IF ttl <= 0 \/ max <= 0
    THEN m
    ELSE MapSet(EvictOldest(purgeExpiredCacheEntries(m, now1), max),
                getCacheKey(targetUrl),
                [value |-> value, expiresAt |-> now2 + ttl])

----------------------------------------------------------------------------
(* What the upstreams may answer *)

Bodies == { <<>>, <<WS>>, <<TXT>>, <<WS, HTML, LinkTag("s.css"), LinkTag("s.css")>> }

\* the rendering service's answers to a markup request
MarkupAnswers ==
    {[kind |-> "error", status |-> 0, body |-> <<>>, contentType |-> Null]}
    \cup {[kind |-> "status", status |-> 503, body |-> b, contentType |-> Null] :
            b \in {<<>>, <<TXT>>}}
    \cup {[kind |-> "ok", status |-> 200, body |-> b, contentType |-> ct] :
            b \in Bodies, ct \in {Null, "text/html"}}

Payloads == { <<137, 80>>, <<255>>, <<>> }

\* the rendering service's answers to a screenshot request
ScreenshotAnswers ==
    {[kind |-> "error", status |-> 0, bytes |-> <<>>, text |-> <<>>, contentType |-> Null]}
    \cup {[kind |-> "status", status |-> s, bytes |-> <<>>, text |-> <<TXT>>,
            contentType |-> Null] : s \in {429, 500}}
    \cup {[kind |-> "ok", status |-> 200, bytes |-> p, text |-> <<>>, contentType |-> ct] :
            p \in Payloads, ct \in {Null, "image/jpeg"}}

\* a stylesheet host's answers
CssAnswers ==
    {[kind |-> "error", status |-> 0, text |-> ""],
     [kind |-> "status", status |-> 404, text |-> ""]}
    \cup {[kind |-> "ok", status |-> 200, text |-> t] : t \in {"x{}", "y{}"}}

\* the request bodies a caller may send, as parseFetchBody returns them
RawUrls == { <<" ", "a">>, <<"b">>, <<"c">>, <<" ">> }
Payloads400 == {[isNull |-> TRUE, url |-> <<>>, format |-> Null]}
FetchPayloads ==
    Payloads400 \cup
    {[isNull |-> FALSE, url |-> u, format |-> f] : u \in RawUrls, f \in {Null, "JSON", "html"}}
QueryFormats == {Null, "html"}

(* A run draws what the callers send and what the upstreams answer from one *)
(* of these workloads: each is wide in one place and narrow in the others.  *)
(* The first three let requests overlap; the others take them one by one.   *)

DocBody == <<WS, HTML, LinkTag("s.css"), LinkTag("s.css")>>
\* a document with two different stylesheet links
TwoLinksBody == <<HTML, LinkTag("s.css"), LinkTag("t.css")>>
OkMarkup(b, ct) == [kind |-> "ok", status |-> 200, body |-> b, contentType |-> ct]
OkShot(p, ct) ==
    [kind |-> "ok", status |-> 200, bytes |-> p, text |-> <<>>, contentType |-> ct]
BadShot(s) ==
    [kind |-> "status", status |-> s, bytes |-> <<>>, text |-> <<TXT>>, contentType |-> Null]
JsonPayload(u) == [isNull |-> FALSE, url |-> u, format |-> Null]

Worlds ==
    { \* many addresses, plain upstreams
      [name |-> "cache", slots |-> Reqs, maxEntries |-> {1},
       payloads |-> {JsonPayload(u) : u \in {<<" ", "a">>, <<"b">>}},
       queryFormats |-> {Null},
       markup |-> {OkMarkup(<<TXT>>, Null)},
       screenshot |-> {OkShot(<<255>>, Null), BadShot(500)},
       css |-> {}],
      \* three addresses and room for three entries
      [name |-> "eviction", slots |-> {1, 2}, maxEntries |-> {3},
       payloads |-> {JsonPayload(u) : u \in {<<" ", "a">>, <<"b">>, <<"c">>}},
       queryFormats |-> {Null},
       markup |-> {OkMarkup(<<TXT>>, Null)},
       screenshot |-> {BadShot(500)},
       css |-> {}],
      \* one address asked for in both formats
      [name |-> "format", slots |-> {1, 2}, maxEntries |-> {2},
       payloads |-> {[isNull |-> FALSE, url |-> <<"b">>, format |-> f] : f \in {Null, "html"}},
       queryFormats |-> {Null},
       markup |-> {OkMarkup(<<TXT>>, Null)},
       screenshot |-> {OkShot(<<255>>, Null), BadShot(500)},
       css |-> {}],
      \* one address, every screenshot answer
      [name |-> "screenshot", slots |-> {1}, maxEntries |-> {2},
       payloads |-> {JsonPayload(<<" ", "a">>)},
       queryFormats |-> {Null},
       markup |-> {OkMarkup(<<TXT>>, Null)},
       screenshot |-> ScreenshotAnswers,
       css |-> {}],
      \* one address, every markup answer but the document with stylesheets
      [name |-> "markup", slots |-> {1}, maxEntries |-> {2},
       payloads |-> {p \in FetchPayloads : p.isNull \/ p.url = <<" ", "a">>},
       queryFormats |-> QueryFormats,
       markup |-> {a \in MarkupAnswers : a.body # DocBody},
       screenshot |-> {OkShot(<<255>>, Null), BadShot(500)},
       css |-> {}],
      \* one address, the document with stylesheets, every stylesheet answer
      [name |-> "css", slots |-> {1}, maxEntries |-> {2},
       payloads |-> {JsonPayload(<<" ", "a">>)},
       queryFormats |-> {Null},
       markup |-> {OkMarkup(DocBody, ct) : ct \in {Null, "text/html"}}
                  \cup {OkMarkup(TwoLinksBody, "text/html")},
       screenshot |-> {OkShot(<<255>>, Null), BadShot(500)},
       css |-> CssAnswers] }

----------------------------------------------------------------------------
(* Pure helpers of the handler *)

\* an encoding that drops the bytes after the last full group of three
RECURSIVE Base64WholeGroups(_)
Base64WholeGroups(bytes) ==
    IF Len(bytes) < 3 THEN <<>>
    ELSE <<bytes[1] \div 4, (bytes[1] % 4) * 16 + bytes[2] \div 16,
           (bytes[2] % 16) * 4 + bytes[3] \div 64, bytes[3] % 64>>
         \o Base64WholeGroups(SubSeq(bytes, 4, Len(bytes)))

\* Buffer.toString("base64"): sextets 0..63, and 64 for the pad character
RECURSIVE Base64(_)
Base64(bytes) ==
    IF bytes = <<>> THEN <<>>
    ELSE IF Len(bytes) = 1
    THEN <<bytes[1] \div 4, (bytes[1] % 4) * 16, 64, 64>>
    ELSE IF Len(bytes) = 2
    THEN <<bytes[1] \div 4, (bytes[1] % 4) * 16 + bytes[2] \div 16,
           (bytes[2] % 16) * 4, 64>>
    ELSE <<bytes[1] \div 4, (bytes[1] % 4) * 16 + bytes[2] \div 16,
           (bytes[2] % 16) * 4 + bytes[3] \div 64, bytes[3] % 64>>
         \o Base64(SubSeq(bytes, 4, Len(bytes)))

ToLowerCase(s) == IF s = "JSON" THEN "json" ELSE s

\* lines 521-524
ResolveFormat(payloadFormat, queryFormat) ==
    IF payloadFormat # Null /\ ToLowerCase(payloadFormat) # ""
    THEN ToLowerCase(payloadFormat)
    ELSE IF queryFormat # Null /\ queryFormat # "" THEN queryFormat ELSE "json"

StartsWithHtml(body) ==
    LET trimmed == TrimStart(body, SpaceToks)
    IN  trimmed # <<>> /\ Head(trimmed).k \in {"doctype", "html"}

pickResponseContentType(contentType, body) ==
    IF contentType # Null /\ contentType # ""
    THEN contentType
    ELSE IF StartsWithHtml(body) THEN "text/html; charset=utf-8"
         ELSE "text/plain; charset=utf-8"

isHtmlContentType(contentType, body) ==
    IF contentType # Null /\ contentType \in {"text/html", "application/xhtml+xml"}
    THEN TRUE
    ELSE StartsWithHtml(body)

\* the stylesheet <link> tags of the markup, in document order
extractStylesheetLinks(html) ==
    LET tags == SelectSeq(html, LAMBDA t : t.k = "link" /\ t.a # "")
    IN  [i \in 1..Len(tags) |-> [tag |-> tags[i], href |-> tags[i].a]]

\* a replace of every occurrence of the pattern
ReplaceEvery(s, pattern, replacement) ==
    [i \in 1..Len(s) |-> IF s[i] = pattern THEN replacement ELSE s[i]]

\* String.prototype.replace with a string pattern: the first occurrence only
ReplaceFirst(s, pattern, replacement) ==
    LET at == {i \in 1..Len(s) : s[i] = pattern}
    IN  IF at = {} THEN s
        ELSE LET first == CHOOSE i \in at : \A j \in at : i <= j
             IN  [i \in 1..Len(s) |-> IF i = first THEN replacement ELSE s[i]]

----------------------------------------------------------------------------
(* One request: the locals of the handler of lines 487-603, its position,  *)
(* and a record of what it has done so far                                 *)

NoResp ==
    [status |-> 0, type |-> "none", url |-> <<>>, html |-> <<>>,
     imageIsNull |-> TRUE, image |-> <<>>, htmlContentType |-> Null,
     imageContentType |-> Null, warning |-> NoErr, error |-> NoErr]

IdleReq ==
    [pc |-> "idle", targetUrl |-> <<>>, format |-> "json",
     htmlAttempt |-> 0, htmlResult |-> NullHtml,
     attempt |-> 0, screenshotResult |-> NullShot, screenshotWarning |-> NoErr,
     links |-> <<>>, linkIdx |-> 0, out |-> <<>>,
     resp |-> NoResp,
     \* what the request has done: whether the cache answered it; the upstream
     \* calls it sent; the markup answers that were blank, the waitForTimeout of
     \* each markup call, the statuses and the last text of the markup answers;
     \* the statuses (0: the fetch threw) and texts of the stylesheet answers; the statuses
     \* and the last payload of the screenshot answers, the backoff waits; the
     \* calls of setCachedFetchResult and the expiry of the entry it stored
     \* (0: none); the responses sent
     cacheHit |-> FALSE, htmlCalls |-> 0, shotCalls |-> 0, cssCalls |-> 0,
     blankBodies |-> 0, htmlDelays |-> <<>>, htmlLog |-> <<>>, lastText |-> <<>>,
     cssLog |-> <<>>, cssTexts |-> <<>>,
     shotLog |-> <<>>, lastBytes |-> <<>>, waits |-> <<>>,
     cacheWrites |-> 0, storedExpiresAt |-> 0, sent |-> 0]

\* what the latest step did to the cache, for the steps that call the store
NoOp ==
    [op |-> "none", slot |-> 0, purged |-> 0, stale |-> FALSE,
     evicted |-> <<>>, replaced |-> FALSE]

\* getCachedFetchResult as a step: the entries the purge removed, and whether
\* the key's own entry was in the store and had expired
GetOp(r, m, targetUrl, now1, cached) ==
    [NoOp EXCEPT !.op = "get", !.slot = r,
                 !.purged = Len(m) - Len(purgeExpiredCacheEntries(m, now1)),
                 !.stale = MapHas(m, getCacheKey(targetUrl)) /\ ~cached.found]

\* setCachedFetchResult as a step: the entries the purge removed, the entries
\* evicted for capacity, and whether the key had a live entry
PutOp(r, m, targetUrl, now1, ttl, max) ==
    LET purged == purgeExpiredCacheEntries(m, now1)
        kept == EvictOldest(purged, max)
    IN  IF ttl <= 0 \/ max <= 0
        THEN [NoOp EXCEPT !.op = "put", !.slot = r]
        ELSE [NoOp EXCEPT !.op = "put", !.slot = r,
                          !.purged = Len(m) - Len(purged),
                          !.evicted = SelectSeq(purged, LAMBDA e : ~MapHas(kept, e.key)),
                          !.replaced = MapHas(purged, getCacheKey(targetUrl))]

\* a handler that ends without sending
SendNothing(rq, response) == [rq EXCEPT !.pc = "done"]

\* res.writeHead + res.end
Send(rq, response) ==
    [rq EXCEPT !.pc = "done", !.resp = response, !.sent = @ + 1]

OrDefault(msg, default) == IF msg = "" \/ msg = Null THEN default ELSE msg

ErrorResponse(status, err) ==
    [NoResp EXCEPT !.status = status, !.type = "error", !.error = err]

\* a catch that answers with the default message only
CatchAllGeneric(rq, err) ==
    Send(rq, ErrorResponse(500, Err("Internal server error.", 0)))

\* the catch of lines 595-599
CatchAll(rq, err) ==
    Send(rq, ErrorResponse(500, [err EXCEPT !.msg = OrDefault(@, "Internal server error.")]))

\* lines 576-594
ShapeResponse(rq) ==
    IF rq.format = "json"
    THEN Send(rq, [NoResp EXCEPT
                     !.status = 200, !.type = "json", !.url = rq.targetUrl,
                     !.html = rq.out,
                     !.imageIsNull = rq.screenshotResult.isNull,
                     !.image = IF rq.screenshotResult.isNull THEN <<>>
                               ELSE rq.screenshotResult.image,
                     !.htmlContentType = rq.htmlResult.contentType,
                     !.imageContentType =
                         IF rq.screenshotResult.isNull THEN Null
                         ELSE rq.screenshotResult.contentType,
                     !.warning = rq.screenshotWarning])
    ELSE Send(rq, [NoResp EXCEPT
                     !.status = 200, !.type = "raw", !.html = rq.out,
                     !.htmlContentType = rq.htmlResult.contentType])

\* a value that leaves the warning out
FetchResultValueNoWarning(finalHtml, finalHtmlContentType, screenshotResult, screenshotWarning) ==
    [html |-> finalHtml, htmlContentType |-> finalHtmlContentType,
     screenshotResult |-> screenshotResult, screenshotWarning |-> NoErr]

\* lines 568-573: the value handed to setCachedFetchResult
FetchResultValue(finalHtml, finalHtmlContentType, screenshotResult, screenshotWarning) ==
    [html |-> finalHtml, htmlContentType |-> finalHtmlContentType,
     screenshotResult |-> screenshotResult, screenshotWarning |-> screenshotWarning]

\* a cache write that leaves the screenshot out when the response is raw
StoreAndRespondRawDropsShot(r, rq, body, cache, now1, now2, ttl, max) ==
    LET finalHtmlContentType == pickResponseContentType(rq.htmlResult.contentType, body)
        final == [rq EXCEPT !.out = body, !.htmlResult.body = body,
                            !.htmlResult.contentType = finalHtmlContentType,
                            !.cacheWrites = @ + 1,
                            !.storedExpiresAt =
                                IF ttl <= 0 \/ max <= 0 THEN 0 ELSE now2 + ttl]
    IN  [rq |-> ShapeResponse(final),
         cache |-> setCachedFetchResult(cache, rq.targetUrl,
                       FetchResultValue(body, finalHtmlContentType,
                           IF rq.format = "json" THEN rq.screenshotResult ELSE NullShot,
                           rq.screenshotWarning),
                       now1, now2, ttl, max),
         op |-> PutOp(r, cache, rq.targetUrl, now1, ttl, max)]

\* lines 566-594: the cache write and the response.  A step result is the
\* request's new record, the new cache and what the step did to the cache.
\* rq.out is finalHtml, rq.htmlResult.contentType becomes finalHtmlContentType.
StoreAndRespond(r, rq, body, cache, now1, now2, ttl, max) ==
    LET finalHtmlContentType == pickResponseContentType(rq.htmlResult.contentType, body)
        final == [rq EXCEPT !.out = body, !.htmlResult.body = body,
                            !.htmlResult.contentType = finalHtmlContentType,
                            !.cacheWrites = @ + 1,
                            !.storedExpiresAt =
                                IF ttl <= 0 \/ max <= 0 THEN 0 ELSE now2 + ttl]
    IN  [rq |-> ShapeResponse(final),
         cache |-> setCachedFetchResult(cache, rq.targetUrl,
                       FetchResultValue(body, finalHtmlContentType,
                                        rq.screenshotResult, rq.screenshotWarning),
                       now1, now2, ttl, max),
         op |-> PutOp(r, cache, rq.targetUrl, now1, ttl, max)]

\* a handler that stores and answers before the stylesheets are inlined
AfterScreenshotNoInline(r, rq, cache, now1, now2, ttl, max) ==
    StoreAndRespond(r, rq, rq.htmlResult.body, cache, now1, now2, ttl, max)

\* lines 562-565: after the screenshot attempt has ended, either way
AfterScreenshot(r, rq, cache, now1, now2, ttl, max) ==
    IF isHtmlContentType(rq.htmlResult.contentType, rq.htmlResult.body)
    THEN LET links == extractStylesheetLinks(rq.htmlResult.body)
         IN  [rq |-> [rq EXCEPT !.links = links, !.out = rq.htmlResult.body,
                                !.linkIdx = 1,
                                !.pc = IF links = <<>> THEN "inlined" ELSE "css",
                                !.cssCalls = IF links = <<>> THEN 0 ELSE 1],
              cache |-> cache, op |-> NoOp]
    ELSE StoreAndRespond(r, rq, rq.htmlResult.body, cache, now1, now2, ttl, max)

\* a catch that records nothing
ScreenshotFailedSilently(rq, err) == rq

\* lines 555-556: the handler's catch around the screenshot client
ScreenshotFailed(rq, err) ==
    [rq EXCEPT !.screenshotWarning =
        [err EXCEPT !.msg = OrDefault(@, "Screenshot unavailable.")]]

\* lines 553-554 and 368-397: the screenshot client is entered
StartScreenshot(r, rq, token, cache, now1, now2, ttl, max) ==
    IF ~token
    THEN AfterScreenshot(r,
             ScreenshotFailed(rq, Err("Missing BROWSERLESS_TOKEN environment variable.", 0)),
             cache, now1, now2, ttl, max)
    ELSE [rq |-> [rq EXCEPT !.pc = "shot", !.attempt = 0, !.shotCalls = 1],
          cache |-> cache, op |-> NoOp]

\* a test without the trim
IsEmpty(body) == body = <<>>

\* lines 355 and 545: !body.trim()
IsBlank(body) == Trim(body, SpaceToks) = <<>>

\* a loop that takes the tag of a failed link out of the markup
InlineOneDropsFailed(out, link, answer, pageUrl) ==
    IF answer.kind = "ok"
    THEN ReplaceFirst(out, link.tag, StyleTag(pageUrl, link.href, answer.text))
    ELSE SelectSeq(out, LAMBDA t : t # link.tag)

\* lines 463-482: one turn of the loop of inlineExternalCss
InlineOne(out, link, answer, pageUrl) ==
    IF answer.kind = "ok"
    THEN ReplaceFirst(out, link.tag, StyleTag(pageUrl, link.href, answer.text))
    ELSE out

\* a retry that asks with the delay of the first call
WaitForTimeoutSame(htmlAttempt) == CAPTURE_DELAY_MS

\* lines 331 and 361: the waitForTimeout of the markup call
WaitForTimeout(htmlAttempt) ==
    IF htmlAttempt = 1 THEN CAPTURE_DELAY_MS ELSE CAPTURE_DELAY_MS + 3000

\* a retry on any failure status
ShouldRetryAnyStatus(status, attempt) == attempt < SCREENSHOT_RETRIES

\* line 408: whether a failed screenshot attempt is tried again
ShouldRetry(status, attempt) == status = 429 /\ attempt < SCREENSHOT_RETRIES

\* line 409
WaitMs(attempt) == SCREENSHOT_BACKOFF_MS * (attempt + 1)

\* the values a second Date.now() of the same stretch may return
Later(now) == {t \in {now, now + 1} : t <= MaxClock}

Apply(r, step, now2) ==
    /\ req' = [req EXCEPT ![r] = step.rq]
    /\ fetchCache' = step.cache
    /\ cacheOp' = step.op
    /\ clock' = IF step.op.op = "none" THEN clock ELSE now2
    /\ UNCHANGED <<CACHE_TTL_MS, CACHE_MAX_ENTRIES, BROWSERLESS_TOKEN, world>>

Local(r, rq) ==
    /\ req' = [req EXCEPT ![r] = rq]
    /\ cacheOp' = NoOp
    /\ UNCHANGED <<clock, fetchCache, CACHE_TTL_MS, CACHE_MAX_ENTRIES, BROWSERLESS_TOKEN, world>>

----------------------------------------------------------------------------
(* Actions *)

\* lines 504-544 and 316-335: a POST /fetch arrives, its body is read and
\* parsed, the cache is consulted; a hit is answered, a miss asks for the markup
Receive(r) ==
    /\ r \in world.slots
    /\ req[r].pc = "idle"
    /\ \E payload \in world.payloads, queryFormat \in world.queryFormats, now2 \in Later(clock) :
         IF payload.isNull \/ Trim(payload.url, SpaceChars) = <<>>
         THEN Local(r, Send(req[r], ErrorResponse(400, Err(InvalidBodyMessage, 0))))
         ELSE LET rq == [req[r] EXCEPT
                            !.targetUrl = Trim(payload.url, SpaceChars),
                            !.format = ResolveFormat(payload.format, queryFormat)]
                  cached == getCachedFetchResult(fetchCache, rq.targetUrl, clock, now2)
                  op == GetOp(r, fetchCache, rq.targetUrl, clock, cached)
              IN  IF cached.found
                  THEN Apply(r, [rq |-> ShapeResponse(
                                           [rq EXCEPT !.cacheHit = TRUE,
                                               !.out = cached.value.html,
                                               !.htmlResult.contentType = cached.value.htmlContentType,
                                               !.screenshotResult = cached.value.screenshotResult,
                                               !.screenshotWarning = cached.value.screenshotWarning]),
                                 cache |-> cached.cache, op |-> op], now2)
                  ELSE IF ~BROWSERLESS_TOKEN
                  THEN Apply(r, [rq |-> CatchAll(rq,
                                           Err("Missing BROWSERLESS_TOKEN environment variable.", 0)),
                                 cache |-> cached.cache, op |-> op], now2)
                  ELSE Apply(r, [rq |-> [rq EXCEPT !.pc = "html", !.htmlAttempt = 1,
                                                   !.htmlCalls = 1,
                                                   !.htmlDelays = <<WaitForTimeout(1)>>],
                                 cache |-> cached.cache, op |-> op], now2)

\* lines 334-365 and 544-554: the rendering service answers a markup request
HtmlResponse(r) ==
    /\ req[r].pc = "html"
    /\ \E answer \in world.markup, now2 \in Later(clock) :
         LET rq == [req[r] EXCEPT !.blankBodies =
                       IF answer.kind = "ok" /\ Trim(answer.body, SpaceToks) = <<>>
                       THEN @ + 1 ELSE @,
                                  !.htmlLog = Append(@, answer.status),
                                  !.lastText = answer.body]
         IN  IF answer.kind = "error"
             THEN Local(r, CatchAll(rq, Err("fetch failed", 0)))
             ELSE IF answer.kind = "status"
             THEN Local(r, CatchAll(rq, UpstreamError("Browserless request failed",
                                                      answer.status, answer.body)))
             ELSE IF rq.htmlAttempt = 1 /\ IsBlank(answer.body)
             THEN Local(r, [rq EXCEPT !.htmlAttempt = 2, !.htmlCalls = @ + 1,
                                      !.htmlDelays = Append(@, WaitForTimeout(2))])
             ELSE IF IsBlank(answer.body)
             THEN Local(r, Send(rq, ErrorResponse(502,
                                  Err(EmptyBodyMessage, 0))))
             ELSE Apply(r, StartScreenshot(r,
                               [rq EXCEPT !.htmlResult =
                                   [body |-> answer.body, contentType |-> answer.contentType]],
                               BROWSERLESS_TOKEN, fetchCache, clock, now2,
                               CACHE_TTL_MS, CACHE_MAX_ENTRIES), now2)

\* lines 392-422 and 553-574: the rendering service answers a screenshot request
ScreenshotResponse(r) ==
    /\ req[r].pc = "shot"
    /\ \E answer \in world.screenshot, now2 \in Later(clock) :
         LET rq == [req[r] EXCEPT !.lastBytes = answer.bytes,
                                  !.shotLog = Append(@, answer.status)]
         IN  IF answer.kind = "ok"
             THEN Apply(r, AfterScreenshot(r,
                               [rq EXCEPT !.screenshotResult =
                                   [isNull |-> FALSE, image |-> Base64(answer.bytes),
                                    contentType |-> IF answer.contentType = Null
                                                    THEN "image/png" ELSE answer.contentType]],
                               fetchCache, clock, now2, CACHE_TTL_MS, CACHE_MAX_ENTRIES), now2)
             ELSE IF answer.kind = "status" /\ ShouldRetry(answer.status, rq.attempt)
             THEN Local(r, [rq EXCEPT !.pc = "backoff",
                                      !.waits = Append(@, WaitMs(rq.attempt))])
             ELSE Apply(r, AfterScreenshot(r,
                               ScreenshotFailed(rq,
                                   IF answer.kind = "error"
                                   THEN Err("fetch failed", 0)
                                   ELSE UpstreamError("Browserless screenshot failed",
                                                      answer.status, answer.text)),
                               fetchCache, clock, now2, CACHE_TTL_MS, CACHE_MAX_ENTRIES), now2)

\* lines 413-414 and 392-397: the backoff timer fires, the next attempt is sent
BackoffElapsed(r) ==
    /\ req[r].pc = "backoff"
    /\ Local(r, [req[r] EXCEPT !.pc = "shot", !.attempt = @ + 1, !.shotCalls = @ + 1])

\* lines 462-482: a stylesheet host answers (or the fetch throws)
CssResponse(r) ==
    /\ req[r].pc = "css"
    /\ \E answer \in world.css :
         LET rq == req[r]
             link == rq.links[rq.linkIdx]
             out == InlineOne(rq.out, link, answer, rq.targetUrl)
             more == rq.linkIdx < Len(rq.links)
         IN  Local(r, [rq EXCEPT !.out = out, !.linkIdx = @ + 1,
                                 !.cssLog = Append(@, answer.status),
                                 !.cssTexts = Append(@, answer.text),
                                 !.pc = IF more THEN "css" ELSE "inlined",
                                 !.cssCalls = IF more THEN @ + 1 ELSE @])

\* lines 563-594: inlineExternalCss has returned; the result is stored and sent
InlineReturned(r) ==
    /\ req[r].pc = "inlined"
    /\ \E now2 \in Later(clock) :
         Apply(r, StoreAndRespond(r, req[r], req[r].out, fetchCache, clock, now2,
                                  CACHE_TTL_MS, CACHE_MAX_ENTRIES), now2)

\* the response has gone out; the slot takes the next request
Close(r) ==
    /\ req[r].pc = "done"
    /\ Local(r, IdleReq)

\* time passes
Tick ==
    /\ clock < MaxClock
    /\ clock' = clock + 1
    /\ cacheOp' = NoOp
    /\ UNCHANGED <<fetchCache, CACHE_TTL_MS, CACHE_MAX_ENTRIES, BROWSERLESS_TOKEN, world, req>>

Init ==
    /\ clock = 0
    /\ fetchCache = <<>>
    /\ cacheOp = NoOp
    /\ CACHE_TTL_MS = EnvCacheTtlMs
    /\ world \in Worlds
    /\ CACHE_MAX_ENTRIES \in world.maxEntries
    /\ BROWSERLESS_TOKEN \in BOOLEAN
    /\ req = [r \in Reqs |-> IdleReq]

Next ==
    \/ \E r \in Reqs : Receive(r)
    \/ \E r \in Reqs : HtmlResponse(r)
    \/ \E r \in Reqs : ScreenshotResponse(r)
    \/ \E r \in Reqs : BackoffElapsed(r)
    \/ \E r \in Reqs : CssResponse(r)
    \/ \E r \in Reqs : InlineReturned(r)
    \/ \E r \in Reqs : Close(r)
    \/ Tick

Spec == Init /\ [][Next]_vars

\* The configurations that disable the cache (line 231): CACHE_TTL_MS and
\* CACHE_MAX_ENTRIES as the environment may set them
DisabledConfigs == { <<0, 2>>, <<-1, 2>>, <<2, 0>>, <<2, -1>>, <<0, 0>> }

DisabledInit ==
    /\ clock = 0
    /\ fetchCache = <<>>
    /\ cacheOp = NoOp
    /\ \E c \in DisabledConfigs : CACHE_TTL_MS = c[1] /\ CACHE_MAX_ENTRIES = c[2]
    /\ world \in Worlds
    /\ BROWSERLESS_TOKEN \in BOOLEAN
    /\ req = [r \in Reqs |-> IdleReq]

DisabledSpec == DisabledInit /\ [][Next]_vars

\* Every upstream call returns (a response or an error), every timer fires
\* and every continuation of the handler runs: lines 335, 393, 413, 465, 563
Progress(r) ==
    /\ WF_vars(HtmlResponse(r))
    /\ WF_vars(ScreenshotResponse(r))
    /\ WF_vars(BackoffElapsed(r))
    /\ WF_vars(CssResponse(r))
    /\ WF_vars(InlineReturned(r))

\* the runs in which termination is checked: the workloads with one address
FairInit == Init /\ world.name \notin {"cache", "eviction"}

FairSpec == FairInit /\ [][Next]_vars /\ \A r \in Reqs : Progress(r)

----------------------------------------------------------------------------
(* Properties *)

CacheEnabled == CACHE_TTL_MS > 0 /\ CACHE_MAX_ENTRIES > 0

Keys(m) == {m[i].key : i \in 1..Len(m)}
Entries(m) == {m[i] : i \in 1..Len(m)}

\* the entries of m that have not expired at `now`
Live(m, now) == SelectSeq(m, LAMBDA e : e.expiresAt > now)

\* request r is consulting the cache in this step (a valid POST /fetch)
Looks(r) == req[r].pc = "idle" /\ req'[r].pc # "idle" /\ req'[r].targetUrl # <<>>

\* request r is calling setCachedFetchResult in this step
Stores(r) == req'[r].cacheWrites = req[r].cacheWrites + 1

\* request r is sending its response in this step
Responds(r) == req[r].pc # "done" /\ req'[r].pc = "done"

\* request r has been answered 200 after a cache miss
SucceededMiss(rq) == rq.pc = "done" /\ rq.resp.status = 200 /\ ~rq.cacheHit

\* request r made no upstream call and no cache write
NoUpstream(rq) ==
    rq.htmlCalls = 0 /\ rq.shotCalls = 0 /\ rq.cssCalls = 0 /\ rq.cacheWrites = 0

\* C1 as stated: with the cache enabled, a request for A that starts after a
\* successful first request for A has completed, and within the TTL of what the
\* first stored, is a pure cache hit, and the two requests send exactly one
\* markup call and one screenshot call in total.
C1_AsStated ==
    [][\A r1, r2 \in Reqs :
          ( /\ CacheEnabled /\ r1 # r2
            /\ SucceededMiss(req[r1])
            /\ Looks(r2) /\ req'[r2].targetUrl = req[r1].targetUrl
            /\ clock' < req[r1].storedExpiresAt )
          => /\ req'[r2].pc = "done" /\ req'[r2].cacheHit /\ NoUpstream(req'[r2])
             /\ req[r1].htmlCalls = 1 /\ req[r1].shotCalls = 1]_vars

\* the upstream calls one cache miss sends: one or two for the markup, one
\* to SCREENSHOT_RETRIES + 1 for the screenshot
C1_CallsOfAMiss ==
    \A r \in Reqs :
        SucceededMiss(req[r]) =>
            /\ req[r].htmlCalls \in 1..2
            /\ req[r].htmlCalls = 1 + req[r].blankBodies
            /\ req[r].shotCalls \in 1..(SCREENSHOT_RETRIES + 1)
            /\ req[r].shotCalls = 1 + Len(req[r].waits)

\* C1 as amended: with the cache enabled, a request for A that starts after a
\* successful cache miss for A has completed, within the TTL of the entry the
\* miss stored and while the store still holds an entry for A (capacity has
\* not evicted it), is a pure cache hit: it sends no markup, screenshot or
\* stylesheet request and writes nothing to the cache.  The miss itself sent
\* one or two markup calls and one to SCREENSHOT_RETRIES + 1 screenshot calls.
C1_SecondRequestHits ==
    /\ []C1_CallsOfAMiss
    /\ [][\A r1, r2 \in Reqs :
            ( /\ CacheEnabled /\ r1 # r2
              /\ SucceededMiss(req[r1])
              /\ Looks(r2) /\ req'[r2].targetUrl = req[r1].targetUrl
              /\ clock' < req[r1].storedExpiresAt
              /\ req[r1].targetUrl \in Keys(fetchCache) )
            => /\ req'[r2].pc = "done" /\ req'[r2].cacheHit /\ NoUpstream(req'[r2])
               /\ req'[r2].resp.status = 200]_vars

\* C1 witness: a second request has just been answered from the cache, after
\* a successful miss for the same address, within the TTL of what it stored
C1_Witness ==
    \E r1, r2 \in Reqs :
        /\ r1 # r2 /\ CacheEnabled
        /\ SucceededMiss(req[r1])
        /\ cacheOp.op = "get" /\ cacheOp.slot = r2
        /\ req[r2].pc = "done" /\ req[r2].cacheHit /\ NoUpstream(req[r2])
        /\ req[r2].targetUrl = req[r1].targetUrl
        /\ clock < req[r1].storedExpiresAt

\* C2: when both markup answers are blank (empty or all whitespace), the
\* request is answered 502 with the empty-body error, the screenshot client is
\* not called, nothing is written to the cache and the step leaves the store
\* as it was; and no cached or returned markup is ever blank.
C2_BlankMarkupFails ==
    /\ [][\A r \in Reqs :
            (req[r].pc = "html" /\ req'[r].blankBodies = 2)
            => /\ req'[r].pc = "done"
               /\ req'[r].resp.status = 502 /\ req'[r].resp.type = "error"
               /\ req'[r].resp.error.msg = EmptyBodyMessage
               /\ req'[r].shotCalls = 0 /\ req'[r].cacheWrites = 0
               /\ fetchCache' = fetchCache]_vars
    /\ [](\A e \in Entries(fetchCache) : Trim(e.value.html, SpaceToks) # <<>>)
    /\ [](\A r \in Reqs :
            (req[r].pc = "done" /\ req[r].resp.status = 200)
            => Trim(req[r].resp.html, SpaceToks) # <<>>)

\* C2 witness: a request answered 502 after two blank markup answers, the
\* second of them all whitespace
C2_Witness ==
    \E r \in Reqs :
        /\ req[r].pc = "done" /\ req[r].resp.status = 502
        /\ req[r].blankBodies = 2 /\ req[r].htmlCalls = 2

\* C3: the store never holds more than CACHE_MAX_ENTRIES entries, live or
\* stale, and never two entries for one key, whatever the interleaving of the
\* requests.
C3_StoreBounded ==
    /\ Len(fetchCache) <= CACHE_MAX_ENTRIES
    /\ Cardinality(Keys(fetchCache)) = Len(fetchCache)

\* C3 witness: a put has just evicted an entry of a full store while another
\* request is in flight
C3_Witness ==
    /\ cacheOp.op = "put" /\ cacheOp.evicted # <<>>
    /\ Len(fetchCache) = CACHE_MAX_ENTRIES
    /\ \E q \in Reqs : q # cacheOp.slot /\ req[q].pc \in {"html", "shot"}

\* C4: when setCachedFetchResult finds the store at or above capacity after
\* the expired entries are gone, it evicts exactly one entry, the first in
\* insertion order (the Map's order: a key keeps the place of its first
\* insertion while it stays in the store), whatever the expiry times and
\* whether or not the key being stored is in the store already; the other
\* entries stay, in their order.
C4_EvictsEarliestInserted ==
    [][\A r \in Reqs :
          LET live == Live(fetchCache, clock)
              key == req'[r].targetUrl
          IN  (Stores(r) /\ CacheEnabled /\ Len(live) >= CACHE_MAX_ENTRIES)
              => /\ cacheOp'.evicted = <<Head(live)>>
                 /\ Head(live).key # key => Head(live).key \notin Keys(fetchCache')
                 /\ Head(live).key = key
                        => /\ fetchCache'[Len(fetchCache')].key = key
                           /\ Len(fetchCache') = Len(live)
                 /\ SelectSeq(fetchCache', LAMBDA e : e.key # key)
                        = SelectSeq(Tail(live), LAMBDA e : e.key # key)
                 /\ Keys(fetchCache') = (Keys(live) \ {Head(live).key}) \cup {key}]_vars

\* C4 witness: a put has just evicted the earliest-inserted entry although a
\* surviving entry expires sooner, and the key it stored was in the store
C4_Witness ==
    /\ cacheOp.op = "put" /\ cacheOp.evicted # <<>> /\ cacheOp.replaced
    /\ \E e \in Entries(fetchCache) :
          /\ e.key # req[cacheOp.slot].targetUrl
          /\ e.expiresAt < cacheOp.evicted[1].expiresAt

\* C5: a lookup removes every entry of the store whose expiresAt is at or
\* before the time of the lookup, not only the entry of the key looked up; an
\* entry of the key that has expired by the time it is read is removed and
\* reported absent (the request takes the miss path), and a hit is an entry
\* that has not expired.
C5_LookupPurgesExpired ==
    [][\A r \in Reqs :
          LET key == req'[r].targetUrl
          IN  Looks(r)
              => /\ \A e \in Entries(fetchCache') : e.expiresAt > clock
                 /\ \A e \in Entries(fetchCache) :
                        (e.key = key /\ e.expiresAt <= clock')
                        => /\ ~req'[r].cacheHit
                           /\ key \notin Keys(fetchCache')
                           /\ BROWSERLESS_TOKEN
                                  => req'[r].pc = "html" /\ req'[r].htmlCalls = 1
                 /\ req'[r].cacheHit
                        => \E e \in Entries(fetchCache) :
                              e.key = key /\ e.expiresAt > clock']_vars

\* C5 witness: a lookup has just found its key's entry expired, has removed
\* it and another key's expired entry, and has gone on to ask for the markup
C5_Witness ==
    /\ cacheOp.op = "get" /\ cacheOp.stale /\ cacheOp.purged >= 2
    /\ req[cacheOp.slot].pc = "html"
    /\ fetchCache = <<>>

\* the FetchResult request rq was answered with
ResultOf(rq) ==
    [html |-> rq.out, htmlContentType |-> rq.htmlResult.contentType,
     screenshotResult |-> rq.screenshotResult, screenshotWarning |-> rq.screenshotWarning]

\* the last entry of a sequence
Last(s) == s[Len(s)]

OneOfShotAndWarning(shot, warning) == shot.isNull # (warning = NoErr)

\* C7: every FetchResult in the cache, and every one a request is answered 200
\* with, has exactly one of screenshot and screenshotWarning.
C7_ScreenshotXorWarning ==
    /\ \A e \in Entries(fetchCache) :
          OneOfShotAndWarning(e.value.screenshotResult, e.value.screenshotWarning)
    /\ \A r \in Reqs :
          (req[r].pc = "done" /\ req[r].resp.status = 200)
          => /\ OneOfShotAndWarning(req[r].screenshotResult, req[r].screenshotWarning)
             /\ req[r].format = "json"
                    => req[r].resp.imageIsNull # (req[r].resp.warning = NoErr)

\* C7 witness: the store holds a result with a warning and no screenshot
\* while a request has been answered with a screenshot and no warning
C7_Witness ==
    /\ \E e \in Entries(fetchCache) :
          e.value.screenshotResult.isNull /\ e.value.screenshotWarning # NoErr
    /\ \E r \in Reqs :
          /\ req[r].pc = "done" /\ req[r].resp.status = 200
          /\ ~req[r].resp.imageIsNull /\ req[r].resp.warning = NoErr

\* C8: the screenshot client sends at most SCREENSHOT_RETRIES + 1 requests; an
\* answer is followed by another request only if its status was 429; the wait
\* before the i-th retry is SCREENSHOT_BACKOFF_MS * i, so the waits grow; any
\* other failure ends the client at once, with no wait.
C8_RetriesOnlyOn429 ==
    \A r \in Reqs :
        LET rq == req[r]
            n == Len(rq.shotLog)
            retries == IF rq.pc \in {"backoff", "shot"} \/ n = 0 THEN n ELSE n - 1
        IN  /\ n <= SCREENSHOT_RETRIES + 1
            /\ rq.shotCalls <= SCREENSHOT_RETRIES + 1
            /\ rq.shotCalls = n + (IF rq.pc = "shot" THEN 1 ELSE 0)
            /\ \A i \in 1..retries : rq.shotLog[i] = 429
            /\ Len(rq.waits) = (IF rq.pc = "shot" THEN n ELSE retries)
            /\ \A i \in 1..Len(rq.waits) : rq.waits[i] = SCREENSHOT_BACKOFF_MS * i
            /\ \A i, j \in 1..Len(rq.waits) : i < j => rq.waits[i] < rq.waits[j]
            /\ rq.pc = "backoff" => Last(rq.shotLog) = 429

\* C8 witness: a request answered after three 429 answers, two waits and no
\* fourth attempt
C8_Witness ==
    \E r \in Reqs :
        /\ req[r].pc = "done" /\ req[r].shotLog = <<429, 429, 429>>
        /\ req[r].waits = <<1500, 3000>> /\ req[r].shotCalls = 3
        /\ req[r].screenshotWarning.status = 429

\* the bytes a base64 text stands for
RECURSIVE Base64Decode(_)
Base64Decode(text) ==
    IF Len(text) < 4 THEN <<>>
    ELSE (IF text[3] = 64
          THEN <<text[1] * 4 + text[2] \div 16>>
          ELSE IF text[4] = 64
          THEN <<text[1] * 4 + text[2] \div 16, (text[2] % 16) * 16 + text[3] \div 4>>
          ELSE <<text[1] * 4 + text[2] \div 16, (text[2] % 16) * 16 + text[3] \div 4,
                 (text[3] % 4) * 64 + text[4]>>)
         \o Base64Decode(SubSeq(text, 5, Len(text)))

\* C9: when the screenshot upstream answers 429 k times (k <= SCREENSHOT_RETRIES)
\* and then succeeds, the request is answered 200 without warning, and the
\* image returned and the image stored are the payload of that last answer.
C9_ImageOfTheLastAttempt ==
    [][\A r \in Reqs :
          LET rq == req'[r]
              k == Len(rq.shotLog) - 1
          IN  ( /\ Responds(r) /\ ~rq.cacheHit /\ rq.shotLog # <<>>
                /\ Last(rq.shotLog) = 200
                /\ \A i \in 1..k : rq.shotLog[i] = 429 )
              => /\ k <= SCREENSHOT_RETRIES
                 /\ rq.resp.status = 200
                 /\ rq.screenshotWarning = NoErr
                 /\ Base64Decode(rq.screenshotResult.image) = rq.lastBytes
                 /\ rq.format = "json"
                        => /\ rq.resp.warning = NoErr /\ ~rq.resp.imageIsNull
                           /\ Base64Decode(rq.resp.image) = rq.lastBytes
                 /\ CacheEnabled
                        => /\ rq.targetUrl \in Keys(fetchCache')
                           /\ Base64Decode(MapGet(fetchCache', rq.targetUrl)
                                              .value.screenshotResult.image) = rq.lastBytes
                           /\ MapGet(fetchCache', rq.targetUrl).value.screenshotWarning
                                  = NoErr]_vars

\* C9 witness: a request answered with an image after two 429 answers
C9_Witness ==
    \E r \in Reqs :
        /\ req[r].pc = "done" /\ req[r].shotLog = <<429, 429, 200>>
        /\ req[r].resp.status = 200 /\ ~req[r].resp.imageIsNull
        /\ req[r].lastBytes = <<137, 80>>
        /\ req[r].targetUrl \in Keys(fetchCache)

\* C10: there is no single-flight: a request that misses the cache calls the
\* upstream even while another request for the same address is in flight, and
\* each of them that gets its markup and ends its screenshot attempt writes
\* the cache; after a write the store holds one entry for the key, and its
\* value and expiry are those of the request that wrote last.
C10_LastWriterWins ==
    /\ [](\A r \in Reqs :
            (req[r].pc \in {"html", "shot", "backoff", "css", "inlined"}
             \/ SucceededMiss(req[r]))
            => req[r].htmlCalls >= 1)
    /\ [](\A r \in Reqs : SucceededMiss(req[r]) => req[r].cacheWrites = 1)
    /\ [][\A r \in Reqs :
            (Stores(r) /\ CacheEnabled)
            => /\ Len(SelectSeq(fetchCache', LAMBDA e : e.key = req'[r].targetUrl)) = 1
               /\ MapGet(fetchCache', req'[r].targetUrl).value = ResultOf(req'[r])
               /\ MapGet(fetchCache', req'[r].targetUrl).expiresAt = clock' + CACHE_TTL_MS]_vars

\* C10 witness: two requests for one address have both missed and both
\* written; the second write has just replaced the live entry of the first,
\* and the store holds the second's result, which differs from the first's
C10_Witness ==
    \E r1, r2 \in Reqs :
        /\ r1 # r2
        /\ SucceededMiss(req[r1]) /\ SucceededMiss(req[r2])
        /\ req[r1].targetUrl = req[r2].targetUrl
        /\ cacheOp.op = "put" /\ cacheOp.slot = r2 /\ cacheOp.replaced
        /\ clock < req[r1].storedExpiresAt
        /\ ResultOf(req[r1]) # ResultOf(req[r2])
        /\ Len(SelectSeq(fetchCache, LAMBDA e : e.key = req[r2].targetUrl)) = 1
        /\ MapGet(fetchCache, req[r2].targetUrl).value = ResultOf(req[r2])

C12_MarkupFailureIsFatal ==
    [][\A r \in Reqs :
          ( /\ req[r].pc = "html"
            /\ Len(req'[r].htmlLog) = Len(req[r].htmlLog) + 1
            /\ Last(req'[r].htmlLog) \notin {0, 200} )
          => /\ req'[r].pc = "done"
             /\ req'[r].resp.status = 500 /\ req'[r].resp.type = "error"
             /\ req'[r].resp.error.msg = "Browserless request failed"
             /\ req'[r].resp.error.status = Last(req'[r].htmlLog)
             /\ req'[r].resp.error.details = req'[r].lastText
             /\ req'[r].shotCalls = 0 /\ req'[r].cacheWrites = 0
             /\ req'[r].sent = 1
             /\ fetchCache' = fetchCache]_vars

\* C12 witness: a request answered 500 with the status and text of a failed
\* markup answer that came on the retry after a blank body
C12_Witness ==
    \E r \in Reqs :
        /\ req[r].pc = "done" /\ req[r].resp.status = 500
        /\ req[r].resp.error = UpstreamError("Browserless request failed", 503, <<TXT>>)
        /\ req[r].htmlLog = <<200, 503>> /\ req[r].blankBodies = 1
        /\ req[r].htmlCalls = 2
        /\ req[r].shotCalls = 0 /\ req[r].cacheWrites = 0

\* a request is past its cache lookup and has not been answered
InFlight(rq) == rq.pc \in {"html", "shot", "backoff", "css", "inlined"}

\* a complete response: the success payload of the format, or one error
CompleteResponse(rq) ==
    \/ /\ rq.resp.status = 200 /\ rq.resp.type = "json"
       /\ rq.resp.url = rq.targetUrl /\ rq.resp.url # <<>>
       /\ rq.resp.html = rq.out /\ Trim(rq.resp.html, SpaceToks) # <<>>
       /\ rq.resp.htmlContentType \notin {Null, ""}
       /\ rq.resp.imageIsNull # (rq.resp.warning = NoErr)
       /\ rq.resp.imageIsNull = (rq.resp.imageContentType = Null)
       /\ rq.resp.error = NoErr
    \/ /\ rq.resp.status = 200 /\ rq.resp.type = "raw"
       /\ rq.resp.html = rq.out /\ Trim(rq.resp.html, SpaceToks) # <<>>
       /\ rq.resp.htmlContentType \notin {Null, ""}
       /\ rq.resp.error = NoErr
    \/ /\ rq.resp.status \in {400, 500, 502} /\ rq.resp.type = "error"
       /\ rq.resp.error.msg \notin {Null, ""}
       /\ rq.resp.html = <<>> /\ rq.resp.imageIsNull /\ rq.resp.warning = NoErr

\* C13: if every upstream call returns, every POST /fetch request ends, and it
\* ends having sent exactly one response, a complete success payload or one
\* error; a request that has not ended has sent nothing.
C13_OneResponse ==
    /\ [](\A r \in Reqs :
            /\ req[r].sent <= 1
            /\ req[r].pc = "done" => req[r].sent = 1 /\ CompleteResponse(req[r])
            /\ req[r].pc # "done" => req[r].sent = 0 /\ req[r].resp = NoResp)
    /\ \A r \in Reqs : InFlight(req[r]) ~> (req[r].pc = "done")

\* C13 witness: a request whose screenshot attempts were all rate-limited
\* has ended, with one complete response sent
C13_Witness ==
    \E r \in Reqs :
        /\ req[r].pc = "done" /\ req[r].sent = 1 /\ req[r].resp.status = 200
        /\ CompleteResponse(req[r])
        /\ req[r].shotLog = <<429, 429, 429>> /\ req[r].waits = <<1500, 3000>>

\* request r is receiving the answer to a markup call in this step
MarkupAnswered(r) ==
    req[r].pc = "html" /\ Len(req'[r].htmlLog) = Len(req[r].htmlLog) + 1

\* C14: the markup client calls the upstream a second time if and only if the
\* first answer is a success with an empty or all-whitespace body, and the
\* second call asks for a waitForTimeout of CAPTURE_DELAY_MS + 3000; it never
\* calls a third time; when the second body is blank too the client returns
\* it without throwing, so that the handler answers with its own empty-body
\* error and not through its catch.
C14_OneMarkupRetry ==
    /\ [](\A r \in Reqs :
            /\ req[r].htmlCalls <= 2
            /\ Len(req[r].htmlDelays) = req[r].htmlCalls
            /\ req[r].htmlCalls >= 1 => req[r].htmlDelays[1] = CAPTURE_DELAY_MS)
    /\ [][\A r \in Reqs :
            LET blank == /\ Last(req'[r].htmlLog) = 200
                         /\ Trim(req'[r].lastText, SpaceToks) = <<>>
            IN  /\ (MarkupAnswered(r) /\ req[r].htmlCalls = 1)
                    => /\ (req'[r].htmlCalls = 2) = blank
                       /\ blank => /\ req'[r].pc = "html"
                                    /\ req'[r].htmlDelays
                                           = <<CAPTURE_DELAY_MS, CAPTURE_DELAY_MS + 3000>>
                       /\ ~blank => req'[r].pc # "html"
                /\ (MarkupAnswered(r) /\ req[r].htmlCalls = 2)
                    => /\ req'[r].htmlCalls = 2 /\ req'[r].pc # "html"
                       /\ req'[r].htmlDelays = req[r].htmlDelays
                       /\ blank => /\ req'[r].pc = "done"
                                    /\ req'[r].resp.status = 502
                                    /\ req'[r].resp.error.msg = EmptyBodyMessage]_vars

\* C14 witness: the first body was all whitespace, the client has called once
\* more with the longer delay, and the second body it returned was empty
C14_Witness ==
    \E r \in Reqs :
        /\ req[r].htmlLog = <<200, 200>> /\ req[r].blankBodies = 2
        /\ req[r].htmlDelays = <<5000, 8000>>
        /\ req[r].lastText = <<>>
        /\ req[r].pc = "done" /\ req[r].resp.status = 502

\* C15: a request calls setCachedFetchResult at most once, and a request
\* answered from the cache never; the call comes only when the markup call
\* has returned a body that is not blank, the screenshot client has ended
\* (with a screenshot, or with a failure kept as warning) and, for HTML, every
\* stylesheet link has been gone through; the response follows in the same
\* step.
C15_OneWriteAfterBoth ==
    /\ [](\A r \in Reqs :
            /\ req[r].cacheWrites <= 1
            /\ req[r].cacheHit => req[r].cacheWrites = 0
            /\ req[r].cacheWrites = 1 => SucceededMiss(req[r]))
    /\ [][\A r \in Reqs :
            LET old == req[r]
                new == req'[r]
                html == isHtmlContentType(old.htmlResult.contentType, old.htmlResult.body)
            IN  Stores(r)
                => /\ old.cacheWrites = 0 /\ ~new.cacheHit
                   /\ new.htmlLog # <<>> /\ Last(new.htmlLog) = 200
                   /\ old.htmlResult.body = new.lastText
                   /\ Trim(old.htmlResult.body, SpaceToks) # <<>>
                   /\ new.shotCalls = Len(new.shotLog) /\ new.shotCalls >= 1
                   /\ Last(new.shotLog) = 200
                          => ~new.screenshotResult.isNull /\ new.screenshotWarning = NoErr
                   /\ Last(new.shotLog) # 200
                          => /\ new.screenshotResult.isNull /\ new.screenshotWarning # NoErr
                             /\ ~ShouldRetry(Last(new.shotLog), Len(new.shotLog) - 1)
                   /\ html => /\ old.pc = "inlined"
                               /\ old.links = extractStylesheetLinks(old.htmlResult.body)
                               /\ old.linkIdx = Len(old.links) + 1
                               /\ old.cssCalls = Len(old.links)
                               /\ new.out = old.out
                   /\ ~html => old.pc = "shot" /\ new.out = old.htmlResult.body
                   /\ new.pc = "done" /\ new.resp.status = 200]_vars

\* C15 witness: a request has just written the cache, once, after its markup
\* came, its screenshot failed and its two stylesheet links were gone through
C15_Witness ==
    /\ cacheOp.op = "put"
    /\ req[cacheOp.slot].cacheWrites = 1
    /\ req[cacheOp.slot].cssCalls = 2
    /\ req[cacheOp.slot].screenshotWarning # NoErr
    /\ req[cacheOp.slot].targetUrl \in Keys(fetchCache)

\* request r is receiving the answer to a stylesheet fetch in this step
StylesheetAnswered(r) ==
    req[r].pc = "css" /\ Len(req'[r].cssLog) = Len(req[r].cssLog) + 1

\* how many times x occurs in the sequence s
Count(s, x) == Cardinality({i \in 1..Len(s) : s[i] = x})

Inlined(rq) == rq.pc = "inlined" /\ rq.links # <<>>

\* the links of rq whose fetch succeeded
Succeeded(rq) == {j \in 1..Len(rq.links) : rq.cssLog[j] = 200}

\* the style block built from the fetch of link j
BlockOf(rq, j) == StyleTag(rq.targetUrl, rq.links[j].href, rq.cssTexts[j])

OneEntryStore(at) == <<[key |-> <<"b">>, value |-> NullValue, expiresAt |-> at]>>

\* C18: with CACHE_TTL_MS <= 0 or CACHE_MAX_ENTRIES <= 0 the put changes
\* nothing: the store is empty in every state, no request is answered from
\* the cache, every lookup takes the miss path, and a put would leave even a
\* store with an expired entry, or a full one, exactly as it is.
C18_DisabledCacheStaysEmpty ==
    /\ [](~CacheEnabled)
    /\ [](fetchCache = <<>>)
    /\ [](\A r \in Reqs : ~req[r].cacheHit /\ req[r].storedExpiresAt = 0)
    /\ [](\A at \in 0..MaxClock, now \in {clock} :
            setCachedFetchResult(OneEntryStore(at), <<"a">>, NullValue, now, now,
                                 CACHE_TTL_MS, CACHE_MAX_ENTRIES) = OneEntryStore(at))
    /\ [][\A r \in Reqs :
            /\ Looks(r) => /\ ~req'[r].cacheHit
                            /\ BROWSERLESS_TOKEN
                                   => req'[r].pc = "html" /\ req'[r].htmlCalls = 1
            /\ Stores(r) => /\ fetchCache' = fetchCache
                             /\ cacheOp'.purged = 0 /\ cacheOp'.evicted = <<>>]_vars

\* C18 witness: a request has just missed the cache for an address whose
\* earlier request was answered 200 and made its call of the put
C18_Witness ==
    \E r1, r2 \in Reqs :
        /\ r1 # r2 /\ ~CacheEnabled
        /\ SucceededMiss(req[r1]) /\ req[r1].cacheWrites = 1
        /\ cacheOp.op = "get" /\ cacheOp.slot = r2
        /\ req[r2].pc = "html" /\ req[r2].targetUrl = req[r1].targetUrl
        /\ fetchCache = <<>>

\* C19: with the cache enabled, a lookup of k that follows a put of (k, v)
\* and reads the clock before the new entry expires returns exactly v,
\* whatever the store was before the put: below capacity, at capacity, with k
\* absent, or with k its earliest entry, evicted and inserted again.
C19_ReadYourWrites ==
    [][\A r \in Reqs :
          LET key == req'[r].targetUrl
              v == ResultOf(req'[r])
          IN  /\ (Stores(r) /\ CacheEnabled)
                  => \A t1, t2 \in clock'..(clock' + CACHE_TTL_MS - 1) :
                        t1 <= t2 =>
                          LET got == getCachedFetchResult(fetchCache', key, t1, t2)
                          IN  /\ got.found /\ got.value = v
                              /\ got.ttlRemainingMs = clock' + CACHE_TTL_MS - t2
              /\ \A r1 \in Reqs :
                    ( /\ cacheOp.op = "put" /\ cacheOp.slot = r1 /\ r1 # r
                      /\ CacheEnabled
                      /\ Looks(r) /\ key = req[r1].targetUrl
                      /\ clock' < req[r1].storedExpiresAt )
                    => /\ req'[r].cacheHit
                       /\ ResultOf(req'[r]) = ResultOf(req[r1])]_vars

\* C19 witness: a put has just found the store full with its own key as the
\* earliest entry, has evicted it and inserted it again with a later expiry,
\* and a lookup of the key returns the value put
C19_Witness ==
    /\ cacheOp.op = "put" /\ CacheEnabled
    /\ cacheOp.evicted # <<>>
    /\ cacheOp.evicted[1].key = req[cacheOp.slot].targetUrl
    /\ cacheOp.evicted[1].expiresAt < req[cacheOp.slot].storedExpiresAt
    /\ Len(fetchCache) = CACHE_MAX_ENTRIES /\ CACHE_MAX_ENTRIES > 1
    /\ getCachedFetchResult(fetchCache, req[cacheOp.slot].targetUrl, clock, clock).value
           = ResultOf(req[cacheOp.slot])

\* store `after` is store `before` with some entries deleted, each of them
\* expired at time now, and every entry live at time now kept as it was and
\* in its place
OnlyExpiredDeleted(before, after, now) ==
    /\ after = SelectSeq(before, LAMBDA e : MapHas(after, e.key))
    /\ \A i \in 1..Len(before) :
          before[i].expiresAt > now => \E j \in 1..Len(after) : after[j] = before[i]

\* C20: a lookup, hit or miss, changes the store only by deleting entries
\* whose expiresAt has passed; every entry still live keeps its value, its
\* expiresAt and its place in the insertion order.
\* Stated of every lookup step, and of the lookup of every address applied
\* to the store each put leaves.
C20_LookupOnlyDeletesExpired ==
    [][/\ \A r \in Reqs :
            Looks(r) => OnlyExpiredDeleted(fetchCache, fetchCache', clock')
       /\ cacheOp'.op = "put" =>
            \A url \in RawUrls, t1, t2 \in clock'..(clock' + 1) :
               t1 <= t2 =>
                 \A after \in {getCachedFetchResult(fetchCache', url, t1, t2).cache} :
                    OnlyExpiredDeleted(fetchCache', after, t2)]_vars

\* C20 witness: a lookup has hit a live entry and purged an expired one, and
\* the entry it hit is in the store with the expiresAt its writer gave it
C20_Witness ==
    /\ cacheOp.op = "get" /\ cacheOp.purged > 0
    /\ req[cacheOp.slot].cacheHit
    /\ \E i \in 1..Len(fetchCache) :
          /\ fetchCache[i].key = req[cacheOp.slot].targetUrl
          /\ \E w \in Reqs : /\ SucceededMiss(req[w])
                              /\ req[w].storedExpiresAt = fetchCache[i].expiresAt
                              /\ ResultOf(req[w]) = fetchCache[i].value

====
